---- MODULE Spec2Model ----
(***************************************************************************)
(* TeleChat realtime message-delivery core.                                *)
(*                                                                         *)
(* The store is MemStorage (the `storage` singleton), starting from its    *)
(* seed data.  The connection server is ChatWebSocketServer ('/chat-ws').  *)
(* Every handler is an async function: it runs from one `await` on the     *)
(* store to the next as one atomic step, and other handlers may run in     *)
(* between.  A store call takes effect when it is called (MemStorage's     *)
(* methods run synchronously up to their return); the caller resumes in a  *)
(* later step.                                                             *)
(***************************************************************************)
EXTENDS Integers, Sequences, FiniteSets, TLC

VARIABLES
  usersMap,          \* MemStorage.usersMap: id -> [isOnline, lastSeen]
  conversationsMap,  \* MemStorage.conversationsMap: id -> [isGroup, lastMessageId]
  participantsMap,   \* MemStorage.participantsMap: id -> [userId, conversationId, isAdmin]
  messagesMap,       \* MemStorage.messagesMap: id -> [conversationId, userId, content, mediaUrl]
  messageStatusMap,  \* MemStorage.messageStatusMap: id -> [messageId, userId, isRead]
  counters,          \* MemStorage's id counters
  clients,           \* ChatWebSocketServer.clients: userIdStr -> ws
  sockets,           \* per WebSocket: readyState and the userId its handlers closed over
  sent,              \* per WebSocket: the events ws.send() handed to the transport in the last step
  newMessages,       \* per WebSocket: ids of the new_message events sent to it so far, in order
  tasks,             \* async handlers suspended at an await
  directResults,     \* conversation ids returned by the direct-conversation calls, per pair
  inbound,           \* the last inbound frame, where a specification records them
  response,          \* the last HTTP response of POST /api/messages: [user, status]
  statusLog,         \* user_status_change events sent so far, counted per (connection,
                     \* isOnline, recipient), where a specification records them
  client             \* the browser's WebSocketClient and the sockets it has created

vars == <<usersMap, conversationsMap, participantsMap, messagesMap,
          messageStatusMap, counters, clients, sockets, sent, newMessages, tasks,
          directResults, inbound, response, statusLog, client>>

storeVars == <<usersMap, conversationsMap, participantsMap, messagesMap,
               messageStatusMap, counters>>

----------------------------------------------------------------------------
(* Bounds of the model *)

MaxRegister == 1   \* users registered on top of the seeded ones
MaxConns == 3      \* WebSocket connections ever accepted
MaxMsgs == 1       \* messages created on top of the seeded ones
MaxDirect == 2     \* conversations created on top of the seeded ones
MaxTasks == 2      \* handlers suspended at the same time

(* Program constants *)

SeedUsers == 3
SeedConversations == 2
SeedParticipants == 5
SeedMessages == 7
SeedStatuses == 6

Null == 0

(* an absent, null or empty string: `payload.content || null` *)
None == ""

Conns == DOMAIN sockets

----------------------------------------------------------------------------
(* Helpers over JS Maps: a Map is a function whose keys are the ids in     *)
(* insertion order, which is ascending id order (ids come from counters).  *)

MapSet(m, k, v) == [x \in DOMAIN m \cup {k} |-> IF x = k THEN v ELSE m[x]]

(* variant: the entry is kept *)
MapDeleteNone(m, k) == m

MapDelete(m, k) == [x \in DOMAIN m \ {k} |-> m[x]]

(* Number.prototype.toString / String(id): the decimal string of an id,    *)
(* modelled as a one-element tuple so that a string never equals a number. *)
toString(id) == <<id>>

----------------------------------------------------------------------------
(* MemStorage *)

SeedUser(online) == [isOnline |-> online, lastSeen |-> "seed"]

seedDemoData ==
  /\ usersMap = (1 :> SeedUser(TRUE)) @@ (2 :> SeedUser(TRUE)) @@ (3 :> SeedUser(FALSE))
  /\ conversationsMap =
       (1 :> [isGroup |-> FALSE, lastMessageId |-> 6]) @@
       (2 :> [isGroup |-> TRUE, lastMessageId |-> 7])
  /\ participantsMap =
       (1 :> [userId |-> 1, conversationId |-> 1, isAdmin |-> FALSE]) @@
       (2 :> [userId |-> 2, conversationId |-> 1, isAdmin |-> FALSE]) @@
       (3 :> [userId |-> 1, conversationId |-> 2, isAdmin |-> TRUE]) @@
       (4 :> [userId |-> 2, conversationId |-> 2, isAdmin |-> FALSE]) @@
       (5 :> [userId |-> 3, conversationId |-> 2, isAdmin |-> FALSE])
  /\ messagesMap =
       (1 :> [conversationId |-> 1, userId |-> 2, content |-> "text", mediaUrl |-> None]) @@
       (2 :> [conversationId |-> 1, userId |-> 1, content |-> "text", mediaUrl |-> "url"]) @@
       (3 :> [conversationId |-> 1, userId |-> 2, content |-> "text", mediaUrl |-> None]) @@
       (4 :> [conversationId |-> 1, userId |-> 2, content |-> "text", mediaUrl |-> "url"]) @@
       (5 :> [conversationId |-> 1, userId |-> 1, content |-> "text", mediaUrl |-> None]) @@
       (6 :> [conversationId |-> 1, userId |-> 2, content |-> "text", mediaUrl |-> None]) @@
       (7 :> [conversationId |-> 2, userId |-> 2, content |-> "text", mediaUrl |-> None])
  /\ messageStatusMap =
       (1 :> [messageId |-> 1, userId |-> 1, isRead |-> TRUE]) @@
       (2 :> [messageId |-> 2, userId |-> 2, isRead |-> TRUE]) @@
       (3 :> [messageId |-> 3, userId |-> 1, isRead |-> TRUE]) @@
       (4 :> [messageId |-> 4, userId |-> 1, isRead |-> TRUE]) @@
       (5 :> [messageId |-> 5, userId |-> 2, isRead |-> FALSE]) @@
       (6 :> [messageId |-> 6, userId |-> 1, isRead |-> FALSE])
  /\ counters = [userId |-> SeedUsers + 1,
                 conversationId |-> SeedConversations + 1,
                 participantId |-> SeedParticipants + 1,
                 messageId |-> SeedMessages + 1,
                 messageStatusId |-> SeedStatuses + 1]

(* updateUser(id, updateData): { ...user, ...updateData }; no-op when the   *)
(* user is unknown                                                         *)
updateUser(um, id, updateData) ==
  IF id \notin DOMAIN um THEN um
  ELSE MapSet(um, id, [f \in DOMAIN um[id] |->
                        IF f \in DOMAIN updateData THEN updateData[f] ELSE um[id][f]])

(* getConversationsByUserId: one conversation id per participant row of   *)
(* the user, in row order, dropping rows whose conversation is missing     *)
RECURSIVE ConversationsUpTo(_, _, _, _)
ConversationsUpTo(pm, cm, userId, n) ==
  IF n = 0 THEN <<>>
  ELSE LET rest == ConversationsUpTo(pm, cm, userId, n - 1)
       IN IF /\ n \in DOMAIN pm
             /\ pm[n].userId = userId
             /\ pm[n].conversationId \in DOMAIN cm
          THEN Append(rest, pm[n].conversationId)
          ELSE rest

getConversationsByUserId(pm, cm, cnt, userId) ==
  ConversationsUpTo(pm, cm, userId, cnt.participantId - 1)

(* getParticipantsByConversationId: the participants' user ids, in row order *)
RECURSIVE ParticipantsUpTo(_, _, _)
ParticipantsUpTo(pm, conversationId, n) ==
  IF n = 0 THEN <<>>
  ELSE LET rest == ParticipantsUpTo(pm, conversationId, n - 1)
       IN IF n \in DOMAIN pm /\ pm[n].conversationId = conversationId
          THEN Append(rest, pm[n].userId)
          ELSE rest

getParticipantsByConversationId(pm, cnt, conversationId) ==
  ParticipantsUpTo(pm, conversationId, cnt.participantId - 1)

(* createMessage: stores the message under the next id and, when the       *)
(* conversation exists, points its lastMessageId at it                     *)
createMessageMap(mm, cnt, insertMessage) ==
  MapSet(mm, cnt.messageId, insertMessage)

createMessageConversations(cm, cnt, insertMessage) ==
  IF insertMessage.conversationId \in DOMAIN cm
  THEN MapSet(cm, insertMessage.conversationId,
              [cm[insertMessage.conversationId] EXCEPT !.lastMessageId = cnt.messageId])
  ELSE cm

(* getMessagesByConversationId: the messages with that conversationId *)
getMessagesByConversationId(mm, conversationId) ==
  {m \in DOMAIN mm : mm[m].conversationId = conversationId}

(* variant: no status row is inserted *)
createMessageStatusNone(sm, cnt, insertStatus) == sm

(* getMessageStatus: the first row of (messageId, userId), or Null *)
getMessageStatus(sm, messageId, userId) ==
  LET rows == {r \in DOMAIN sm : sm[r].messageId = messageId /\ sm[r].userId = userId}
  IN IF rows = {} THEN Null ELSE CHOOSE r \in rows : \A q \in rows : r <= q

(* updateMessageStatus: rewrites isRead of that row; no-op without a row *)
updateMessageStatus(sm, messageId, userId, isReadNow) ==
  LET status == getMessageStatus(sm, messageId, userId)
  IN IF status = Null THEN sm ELSE [sm EXCEPT ![status].isRead = isReadNow]

(* createMessageStatus: always inserts a new row under the next id *)
createMessageStatus(sm, cnt, insertStatus) ==
  MapSet(sm, cnt.messageStatusId, insertStatus)

----------------------------------------------------------------------------
(* ChatWebSocketServer *)

Event(type, messageId, userId, conversationId, flag) ==
  [type |-> type, messageId |-> messageId, userId |-> userId,
   conversationId |-> conversationId, flag |-> flag]

ErrorEvent == Event("error", Null, Null, Null, FALSE)

NothingSent == [ws \in Conns |-> <<>>]

RECURSIVE NewMessageIds(_)
NewMessageIds(events) ==
  IF events = <<>> THEN <<>>
  ELSE (IF Head(events).type = "new_message" THEN <<Head(events).messageId>> ELSE <<>>)
       \o NewMessageIds(Tail(events))

(* variant: the transport is handed nothing *)
wsSendNone(ob, ws, data) == ob

(* ws.send(data): the transport takes the event only while the socket is OPEN *)
wsSend(ob, ws, data) ==
  IF sockets[ws].readyState = "OPEN"
  THEN [ob EXCEPT ![ws] = Append(@, data)]
  ELSE ob

(* sendToUser(userId, data): one registry lookup by the id's string form,  *)
(* sends if the registered socket is OPEN                                  *)
sendToUser(ob, userId, data) ==
  LET userIdStr == toString(userId)
  IN IF userIdStr \in DOMAIN clients /\ sockets[clients[userIdStr]].readyState = "OPEN"
     THEN [ob EXCEPT ![clients[userIdStr]] = Append(@, data)]
     ELSE ob

(* variant: no participant row is taken for the sender's own *)
IsSelfNever(participantUserId, userId) == FALSE

(* `participant.userId === userId`: the sender's own participant row *)
IsSelf(participantUserId, userId) == participantUserId = userId

(* `for (const participant of participants) if (participant.userId !==     *)
(* userId) this.sendToUser(participant.userId, data)`                      *)
RECURSIVE SendToOthers(_, _, _, _)
SendToOthers(ob, participants, userId, data) ==
  IF participants = <<>> THEN ob
  ELSE LET p == Head(participants)
           next == IF IsSelf(p, userId) THEN ob ELSE sendToUser(ob, p, data)
       IN SendToOthers(next, Tail(participants), userId, data)

IdleTask ==
  [pc |-> "idle", ws |-> Null, userId |-> Null, conversationId |-> Null,
   messageId |-> Null, participants |-> <<>>, idx |-> 0, conversations |-> <<>>,
   isOnline |-> FALSE, otherUserId |-> Null, otherUser |-> Null, request |-> 0,
   flag |-> FALSE, author |-> Null, content |-> None, mediaUrl |-> None]

HasFreeTask == Cardinality(tasks) < MaxTasks

Replace(t, new) == (tasks \ {t}) \cup {new}

NewTask(pc, ws, userId) == [IdleTask EXCEPT !.pc = pc, !.ws = ws, !.userId = userId]

(* POST /api/auth/register -> storage.createUser *)
createUser ==
  /\ counters.userId <= SeedUsers + MaxRegister
  /\ usersMap' = MapSet(usersMap, counters.userId, [isOnline |-> FALSE, lastSeen |-> "now"])
  /\ counters' = [counters EXCEPT !.userId = @ + 1]
  /\ sent' = NothingSent
  /\ UNCHANGED <<conversationsMap, participantsMap, messagesMap, messageStatusMap,
                 clients, sockets, newMessages, tasks, directResults, inbound, response, statusLog, client>>

(* wss.on('connection'): `user` is what getAuthUser(request) returns, a     *)
(* stored user's id or Null. Runs up to `await storage.updateUser`.        *)
Connection(ws, user) ==
  /\ sockets[ws].readyState = "NONE"
  /\ \A w \in Conns : w < ws => sockets[w].readyState # "NONE"
  /\ IF user # Null
     THEN /\ HasFreeTask
          /\ clients' = MapSet(clients, toString(user), ws)
          /\ usersMap' = updateUser(usersMap, user, [isOnline |-> TRUE])
          /\ tasks' = tasks \cup {NewTask("connection_updateUser", ws, user)}
          /\ sent' = NothingSent
     ELSE /\ sent' = [NothingSent EXCEPT ![ws] = <<ErrorEvent>>]
          /\ UNCHANGED <<clients, usersMap, tasks>>
  /\ sockets' = [sockets EXCEPT ![ws] =
                    [readyState |-> "OPEN", userId |-> user, credential |-> user]]
  /\ UNCHANGED <<conversationsMap, participantsMap, messagesMap, messageStatusMap,
                 counters, newMessages, directResults, inbound, response, statusLog, client>>

(* after `await storage.updateUser`: broadcastUserStatus(userId, true) runs *)
(* up to its first await, then the 'connected' event is sent               *)
ConnectionResume(t) ==
  /\ t.pc = "connection_updateUser"
  /\ tasks' = Replace(t, [t EXCEPT
        !.pc = "broadcast_getConversations",
        !.isOnline = TRUE,
        !.conversations =
           getConversationsByUserId(participantsMap, conversationsMap, counters, t.userId)])
  /\ sent' = wsSend(NothingSent, t.ws, Event("connected", Null, t.userId, Null, FALSE))
  /\ UNCHANGED <<storeVars, clients, sockets, newMessages, directResults, inbound, response, statusLog, client>>

(* the transport starts closing: readyState leaves OPEN before 'close' fires *)
BeginClose(ws) ==
  /\ sockets[ws].readyState = "OPEN"
  /\ sockets' = [sockets EXCEPT ![ws].readyState = "CLOSING"]
  /\ sent' = NothingSent
  /\ UNCHANGED <<storeVars, clients, newMessages, tasks, directResults, inbound, response, statusLog, client>>

(* ws.on('close'): runs up to `await storage.updateUser` *)
Close(ws) ==
  /\ sockets[ws].readyState \in {"OPEN", "CLOSING"}
  /\ sockets' = [sockets EXCEPT ![ws].readyState = "CLOSED"]
  /\ LET userId == sockets[ws].userId
     IN IF userId # Null
        THEN /\ HasFreeTask
             /\ clients' = MapDelete(clients, toString(userId))
             /\ usersMap' = updateUser(usersMap, userId,
                                       [isOnline |-> FALSE, lastSeen |-> "now"])
             /\ tasks' = tasks \cup {NewTask("close_updateUser", ws, userId)}
        ELSE UNCHANGED <<clients, usersMap, tasks>>
  /\ sent' = NothingSent
  /\ UNCHANGED <<conversationsMap, participantsMap, messagesMap, messageStatusMap,
                 counters, newMessages, directResults, inbound, response, statusLog, client>>

(* after `await storage.updateUser`: broadcastUserStatus(userId, false) *)
CloseResume(t) ==
  /\ t.pc = "close_updateUser"
  /\ tasks' = Replace(t, [t EXCEPT
        !.pc = "broadcast_getConversations",
        !.isOnline = FALSE,
        !.conversations =
           getConversationsByUserId(participantsMap, conversationsMap, counters, t.userId)])
  /\ sent' = NothingSent
  /\ UNCHANGED <<storeVars, clients, sockets, newMessages, directResults, inbound, response, statusLog, client>>

(* broadcastUserStatus, one conversation of the loop per step: the         *)
(* participants fetched before the await are notified, then the next       *)
(* conversation's participants are fetched                                 *)
UserStatusEvent(t) == Event("user_status_change", Null, t.userId, Null, t.isOnline)

BroadcastNext(t, conversations) ==
  IF conversations = <<>>
  THEN tasks \ {t}
  ELSE Replace(t, [t EXCEPT
         !.pc = "broadcast_getParticipants",
         !.conversations = conversations,
         !.participants =
            getParticipantsByConversationId(participantsMap, counters, Head(conversations))])

broadcastStep(t) ==
  /\ \/ /\ t.pc = "broadcast_getConversations"
        /\ tasks' = BroadcastNext(t, t.conversations)
        /\ sent' = NothingSent
     \/ /\ t.pc = "broadcast_getParticipants"
        /\ sent' = SendToOthers(NothingSent, t.participants, t.userId, UserStatusEvent(t))
        /\ tasks' = BroadcastNext(t, Tail(t.conversations))
  /\ UNCHANGED <<storeVars, clients, sockets, newMessages, directResults, inbound, response>>

broadcastUserStatus(t) == broadcastStep(t) /\ UNCHANGED <<statusLog, client>>

(* inbound frames: a chat_message with or without conversationId, content  *)
(* and mediaUrl; a frame of an unknown type; a frame JSON.parse rejects    *)
Frame(type, conversationId, content, mediaUrl) ==
  [type |-> type, conversationId |-> conversationId,
   content |-> content, mediaUrl |-> mediaUrl]

ChatMessages(conversationIds) ==
  {Frame("chat_message", c, "hi", None) : c \in conversationIds}
  \cup {Frame("chat_message", c, None, "url") : c \in conversationIds}
  \cup {Frame("chat_message", c, None, None) : c \in conversationIds}

WSMessages ==
  ChatMessages(1..SeedConversations)
  \cup {Frame("chat_message", Null, "hi", None),
        Frame("unknown", Null, None, None),
        Frame("malformed", Null, None, None)}

(* variant: every status row starts as read *)
isReadAlways(participantUserId, userId) == TRUE

(* WebSocketClient after construction: no socket, no timer; `states` holds *)
(* the readyState of every socket created so far, `timerPending` whether   *)
(* the timeout of reconnectTimer is still to fire, `disconnected` whether   *)
(* disconnect() was the caller's last request and `socketsThen` how many    *)
(* sockets existed at that call                                            *)
NewClient ==
  [socket |-> 0, isConnected |-> FALSE, reconnectTimer |-> FALSE,
   reconnectAttempts |-> 0, timerPending |-> FALSE, states |-> <<>>,
   disconnected |-> FALSE, socketsThen |-> 0]

(* no HTTP response yet *)
NoResponse == [user |-> Null, status |-> 0]

(* no inbound frame recorded *)
NoInbound ==
  [n |-> 0, ws |-> Null, message |-> Frame("none", Null, None, None), storeFails |-> FALSE]

(* `isRead: participant.userId === userId` *)
isRead(participantUserId, userId) == participantUserId = userId

(* ws.on('message') -> handleMessage -> handleChatMessage, up to            *)
(* `await storage.createMessage`                                           *)
onMessage(ws, message) ==
  /\ sockets[ws].readyState = "OPEN"
  /\ LET userId == sockets[ws].userId
     IN IF message.type = "malformed" \/ userId = Null \/ message.type = "unknown"
        THEN /\ sent' = wsSend(NothingSent, ws, ErrorEvent)
             /\ UNCHANGED <<storeVars, tasks>>
        ELSE IF message.conversationId = Null
        THEN /\ sent' = NothingSent
             /\ UNCHANGED <<storeVars, tasks>>
        ELSE LET messageData == [conversationId |-> message.conversationId,
                                 userId |-> userId,
                                 content |-> message.content,
                                 mediaUrl |-> message.mediaUrl]
             IN /\ HasFreeTask
                /\ messagesMap' = createMessageMap(messagesMap, counters, messageData)
                /\ conversationsMap' =
                      createMessageConversations(conversationsMap, counters, messageData)
                /\ counters' = [counters EXCEPT !.messageId = @ + 1]
                /\ tasks' = tasks \cup
                      {[NewTask("chat_createMessage", ws, userId) EXCEPT
                          !.conversationId = message.conversationId,
                          !.messageId = counters.messageId]}
                /\ sent' = NothingSent
                /\ UNCHANGED <<usersMap, participantsMap, messageStatusMap>>
  /\ UNCHANGED <<clients, sockets, newMessages, directResults>>

handleMessage(ws, message) == onMessage(ws, message) /\ UNCHANGED <<inbound, response, statusLog, client>>

(* handleChatMessage after `await storage.createMessage`: fetches the participants *)
ChatGetParticipants(t) ==
  /\ t.pc = "chat_createMessage"
  /\ tasks' = Replace(t, [t EXCEPT
        !.pc = "chat_createMessageStatus",
        !.idx = 0,
        !.participants =
           getParticipantsByConversationId(participantsMap, counters, t.conversationId)])
  /\ sent' = NothingSent
  /\ UNCHANGED <<storeVars, clients, sockets, newMessages, directResults, inbound, response, statusLog, client>>

(* the status loop: one createMessageStatus per step *)
ChatCreateStatus(t) ==
  /\ t.pc = "chat_createMessageStatus"
  /\ t.idx < Len(t.participants)
  /\ LET participant == t.participants[t.idx + 1]
     IN messageStatusMap' = createMessageStatus(messageStatusMap, counters,
          [messageId |-> t.messageId, userId |-> participant,
           isRead |-> isRead(participant, t.userId)])
  /\ counters' = [counters EXCEPT !.messageStatusId = @ + 1]
  /\ tasks' = Replace(t, [t EXCEPT !.idx = @ + 1])
  /\ sent' = NothingSent
  /\ UNCHANGED <<usersMap, conversationsMap, participantsMap, messagesMap,
                 clients, sockets, newMessages, directResults, inbound, response, statusLog, client>>

(* after the last status: the new_message loop and the sender's confirmation *)
ChatBroadcast(t) ==
  /\ t.pc = "chat_createMessageStatus"
  /\ t.idx = Len(t.participants)
  /\ sent' = sendToUser(
        SendToOthers(NothingSent, t.participants, t.userId,
                     Event("new_message", t.messageId, t.userId, t.conversationId, FALSE)),
        t.userId,
        Event("message_sent", t.messageId, t.userId, t.conversationId, FALSE))
  /\ newMessages' = [ws \in Conns |-> newMessages[ws] \o NewMessageIds(sent'[ws])]
  /\ tasks' = tasks \ {t}
  /\ UNCHANGED <<storeVars, clients, sockets, directResults, inbound, response, statusLog, client>>

----------------------------------------------------------------------------
(* POST /api/conversations/direct/:userId (in-memory branch) and            *)
(* MemStorage.findOrCreateOneToOneConversation                             *)

wsVars == <<clients, sockets, newMessages, inbound, response, statusLog, client>>

(* variant: the scan never recognises the other user *)
SomeParticipantNever(participants, user2Id) == FALSE

(* `participants.some(p => p.userId === user2Id)` *)
SomeParticipant(participants, user2Id) ==
  \E i \in DOMAIN participants : participants[i] = user2Id

(* `user1Conversations.filter(c => !c.isGroup)` *)
RECURSIVE oneToOneConversations(_)
oneToOneConversations(conversations) ==
  IF conversations = <<>> THEN <<>>
  ELSE (IF conversationsMap[Head(conversations)].isGroup
        THEN <<>> ELSE <<Head(conversations)>>)
       \o oneToOneConversations(Tail(conversations))

(* requests in flight are told apart by the lowest free request number *)
FreeRequest ==
  CHOOSE n \in 1..(Cardinality(tasks) + 1) : \A t \in tasks : t.request # n

(* the route up to `await storage.getUser(otherUserId)` *)
directConversation(user, otherUserId) ==
  /\ HasFreeTask
  /\ tasks' = tasks \cup
       {[NewTask("direct_getUser", Null, user) EXCEPT
           !.request = FreeRequest,
           !.otherUserId = otherUserId,
           !.otherUser = IF otherUserId \in DOMAIN usersMap THEN otherUserId ELSE Null]}
  /\ sent' = NothingSent
  /\ UNCHANGED <<storeVars, wsVars, directResults>>

(* 404 when the other user is unknown; otherwise findOrCreate starts and   *)
(* runs up to `await this.getConversationsByUserId(user1Id)`               *)
directGetUserResume(t) ==
  /\ t.pc = "direct_getUser"
  /\ tasks' = IF t.otherUser = Null
              THEN tasks \ {t}
              ELSE Replace(t, [t EXCEPT
                     !.pc = "direct_getConversations",
                     !.conversations = getConversationsByUserId(
                         participantsMap, conversationsMap, counters, t.userId)])
  /\ sent' = NothingSent
  /\ UNCHANGED <<storeVars, wsVars, directResults>>

(* the route after findOrCreate returned `conversation`: the two reads that *)
(* follow change nothing and the conversation goes into the response       *)
DirectReturn(t, conversation) ==
  LET call == <<t.userId, t.otherUserId>>
      before == IF call \in DOMAIN directResults THEN directResults[call] ELSE {}
  IN MapSet(directResults, call, before \cup {conversation})

(* createConversation({isGroup: false}) called, then awaited *)
DirectCreate(t) ==
  /\ conversationsMap' = MapSet(conversationsMap, counters.conversationId,
                                [isGroup |-> FALSE, lastMessageId |-> Null])
  /\ counters' = [counters EXCEPT !.conversationId = @ + 1]
  /\ tasks' = Replace(t, [t EXCEPT !.pc = "direct_createConversation",
                                   !.conversationId = counters.conversationId,
                                   !.conversations = <<>>,
                                   !.participants = <<>>])
  /\ UNCHANGED <<usersMap, participantsMap, messagesMap, messageStatusMap, directResults>>

(* the scan of user1's one-to-one conversations, one per step *)
DirectScan(t, conversations) ==
  IF conversations = <<>>
  THEN DirectCreate(t)
  ELSE /\ tasks' = Replace(t, [t EXCEPT
            !.pc = "direct_getParticipants",
            !.conversations = conversations,
            !.participants = getParticipantsByConversationId(
                participantsMap, counters, Head(conversations))])
       /\ UNCHANGED <<storeVars, directResults>>

directScanResume(t) ==
  /\ \/ /\ t.pc = "direct_getConversations"
        /\ DirectScan(t, oneToOneConversations(t.conversations))
     \/ /\ t.pc = "direct_getParticipants"
        /\ IF SomeParticipant(t.participants, t.otherUserId)
           THEN /\ directResults' = DirectReturn(t, Head(t.conversations))
                /\ tasks' = tasks \ {t}
                /\ UNCHANGED storeVars
           ELSE DirectScan(t, Tail(t.conversations))
  /\ sent' = NothingSent
  /\ UNCHANGED wsVars

(* addParticipant(user1Id), then addParticipant(user2Id), one per step *)
directAddParticipant(t) ==
  /\ t.pc \in {"direct_createConversation", "direct_addParticipant1"}
  /\ LET first == t.pc = "direct_createConversation"
     IN /\ participantsMap' = MapSet(participantsMap, counters.participantId,
              [userId |-> IF first THEN t.userId ELSE t.otherUserId,
               conversationId |-> t.conversationId, isAdmin |-> FALSE])
        /\ tasks' = Replace(t, [t EXCEPT !.pc =
              IF first THEN "direct_addParticipant1" ELSE "direct_addParticipant2"])
  /\ counters' = [counters EXCEPT !.participantId = @ + 1]
  /\ sent' = NothingSent
  /\ UNCHANGED <<usersMap, conversationsMap, messagesMap, messageStatusMap,
                 wsVars, directResults>>

(* `return newConversation` *)
directCreatedReturn(t) ==
  /\ t.pc = "direct_addParticipant2"
  /\ directResults' = DirectReturn(t, t.conversationId)
  /\ tasks' = tasks \ {t}
  /\ sent' = NothingSent
  /\ UNCHANGED <<storeVars, wsVars>>

----------------------------------------------------------------------------

(* the server after construction, able to accept n connections *)
InitWith(n) ==
  /\ seedDemoData
  /\ clients = <<>>
  /\ sockets = [ws \in 1..n |->
                  [readyState |-> "NONE", userId |-> Null, credential |-> Null]]
  /\ sent = [ws \in 1..n |-> <<>>]
  /\ newMessages = [ws \in 1..n |-> <<>>]
  /\ tasks = {}
  /\ directResults = <<>>
  /\ inbound = NoInbound
  /\ response = NoResponse
  /\ statusLog = <<>>
  /\ client = NewClient

MayCreateMessage == counters.messageId <= SeedMessages + MaxMsgs

(* who the i-th accepted connection authenticates as *)
AuthInputs(ws) ==
  IF ws = 1 THEN {1} ELSE IF ws = 2 THEN {2, 3} ELSE {3, Null}

Init == InitWith(MaxConns)

Next ==
  \/ \E ws \in Conns : \E user \in AuthInputs(ws) : Connection(ws, user)
  \/ \E t \in tasks : ConnectionResume(t)
  \/ \E ws \in Conns : BeginClose(ws)
  \/ \E ws \in Conns : Close(ws)
  \/ \E t \in tasks : CloseResume(t)
  \/ \E t \in tasks : broadcastUserStatus(t)
  \/ \E ws \in Conns : \E message \in WSMessages :
        /\ message.conversationId # Null => MayCreateMessage
        /\ handleMessage(ws, message)
  \/ \E t \in tasks : ChatGetParticipants(t)
  \/ \E t \in tasks : ChatCreateStatus(t)
  \/ \E t \in tasks : ChatBroadcast(t)

Spec == Init /\ [][Next]_vars

----------------------------------------------------------------------------
(* Connections and presence only, any stored user or none on each one *)

NextPresence ==
  \/ createUser
  \/ \E ws \in Conns : \E user \in DOMAIN usersMap \cup {Null} : Connection(ws, user)
  \/ \E t \in tasks : ConnectionResume(t)
  \/ \E ws \in Conns : BeginClose(ws)
  \/ \E ws \in Conns : Close(ws)
  \/ \E t \in tasks : CloseResume(t)
  \/ \E t \in tasks : broadcastUserStatus(t)

SpecPresence == Init /\ [][NextPresence]_vars

----------------------------------------------------------------------------
(* Direct-conversation requests between seeded users *)

DirectCalls == {<<a, b>> \in (1..SeedUsers) \X (1..(SeedUsers + 1)) : a # b}

MayStartDirect ==
  counters.conversationId + Cardinality(tasks) <= SeedConversations + MaxDirect

DirectSteps ==
  \/ \E t \in tasks : directGetUserResume(t)
  \/ \E t \in tasks : directScanResume(t)
  \/ \E t \in tasks : directAddParticipant(t)
  \/ \E t \in tasks : directCreatedReturn(t)

(* requests that may overlap *)
NextDirect ==
  \/ \E call \in DirectCalls : MayStartDirect /\ directConversation(call[1], call[2])
  \/ DirectSteps

SpecDirect == Init /\ [][NextDirect]_vars

(* one request completing before the next starts *)
NextDirectSeq ==
  \/ \E call \in DirectCalls :
        tasks = {} /\ MayStartDirect /\ directConversation(call[1], call[2])
  \/ DirectSteps

SpecDirectSeq == Init /\ [][NextDirectSeq]_vars

----------------------------------------------------------------------------
(* Two chat messages in flight between three connected users *)

MaxOrderMsgs == 2  \* messages created on top of the seeded ones

NextOrder ==
  \/ \E ws \in Conns : ws <= SeedUsers /\ Connection(ws, ws)
  \/ \E t \in tasks : ConnectionResume(t)
  \/ \E t \in tasks : broadcastUserStatus(t)
  \/ \E ws \in Conns : \E c \in 1..SeedConversations :
        /\ counters.messageId <= SeedMessages + MaxOrderMsgs
        /\ handleMessage(ws, Frame("chat_message", c, "hi", None))
  \/ \E t \in tasks : ChatGetParticipants(t)
  \/ \E t \in tasks : ChatCreateStatus(t)
  \/ \E t \in tasks : ChatBroadcast(t)

SpecOrder == Init /\ [][NextOrder]_vars

----------------------------------------------------------------------------
(* A group message while recipients' connections come and go: one more     *)
(* socket, the third user connecting twice                                 *)

IsolationAuth(ws) == IF ws <= SeedUsers THEN ws ELSE SeedUsers

NextIsolation ==
  \/ \E ws \in Conns : Connection(ws, IsolationAuth(ws))
  \/ \E t \in tasks : ConnectionResume(t)
  \/ \E ws \in Conns : BeginClose(ws)
  \/ \E ws \in Conns : Close(ws)
  \/ \E t \in tasks : CloseResume(t)
  \/ \E t \in tasks : broadcastUserStatus(t)
  \/ \E ws \in Conns :
        /\ MayCreateMessage
        /\ handleMessage(ws, Frame("chat_message", SeedConversations, "hi", None))
  \/ \E t \in tasks : ChatGetParticipants(t)
  \/ \E t \in tasks : ChatCreateStatus(t)
  \/ \E t \in tasks : ChatBroadcast(t)

InitIsolation == InitWith(MaxConns + 1)

SpecIsolation == InitIsolation /\ [][NextIsolation]_vars

----------------------------------------------------------------------------
(* Properties *)

SeqRange(seq) == {seq[i] : i \in DOMAIN seq}

Participants(conversationId) ==
  SeqRange(getParticipantsByConversationId(participantsMap, counters, conversationId))

(* a message created by a chat_message frame whose handler has run to its end *)
Handled(m) ==
  /\ m \in DOMAIN messagesMap
  /\ m > SeedMessages
  /\ \A t \in tasks : t.messageId # m

StatusRows(m, u) ==
  {s \in DOMAIN messageStatusMap :
     messageStatusMap[s].messageId = m /\ messageStatusMap[s].userId = u}

(* C1: once a chat_message frame from a participant of a conversation with *)
(* N participants has been processed, the store holds one MessageStatus    *)
(* row for each of the N participants; the sender's row has isRead true    *)
(* and every other participant's row has isRead false.                     *)
C1_StatusRowPerParticipant ==
  \A m \in DOMAIN messagesMap :
    (Handled(m) /\ messagesMap[m].userId \in Participants(messagesMap[m].conversationId))
    => \A p \in Participants(messagesMap[m].conversationId) :
         /\ Cardinality(StatusRows(m, p)) = 1
         /\ \A s \in StatusRows(m, p) :
              messageStatusMap[s].isRead = (p = messagesMap[m].userId)

C1_Witness ==
  \E m \in DOMAIN messagesMap :
    /\ Handled(m)
    /\ messagesMap[m].conversationId = SeedConversations
    /\ messagesMap[m].userId \in Participants(SeedConversations)
    /\ Cardinality({s \in DOMAIN messageStatusMap :
                      messageStatusMap[s].messageId = m}) = 3

(* the step in which task t runs the new_message loop *)
FanOut(t) ==
  /\ t.pc = "chat_createMessageStatus"
  /\ t.idx = Len(t.participants)
  /\ t \notin tasks'

(* the new_message events for message m handed to user u's sockets in this step *)
NewMessageSlots(u, m) ==
  {slot \in Conns \X (1..(SeedUsers + MaxRegister + 1)) :
     /\ sockets[slot[1]].userId = u
     /\ slot[2] \in DOMAIN sent'[slot[1]]
     /\ sent'[slot[1]][slot[2]].type = "new_message"
     /\ sent'[slot[1]][slot[2]].messageId = m}

RegisteredOpen(u) ==
  /\ toString(u) \in DOMAIN clients
  /\ sockets[clients[toString(u)]].readyState = "OPEN"

C3_DeliveryInCreationOrder ==
  \A ws \in Conns : \A i, j \in DOMAIN newMessages[ws] :
    (/\ i < j
     /\ messagesMap[newMessages[ws][i]].conversationId =
        messagesMap[newMessages[ws][j]].conversationId)
    => newMessages[ws][i] < newMessages[ws][j]

DirectResultsOf(call) ==
  IF call \in DOMAIN directResults THEN directResults[call] ELSE {}

(* the conversation ids returned so far to requests between a and b *)
PairResults(a, b) == DirectResultsOf(<<a, b>>) \cup DirectResultsOf(<<b, a>>)

OneToOneOf(a, b) ==
  {c \in DOMAIN conversationsMap :
     ~conversationsMap[c].isGroup /\ {a, b} \subseteq Participants(c)}

ParticipantRows(c) ==
  {r \in DOMAIN participantsMap : participantsMap[r].conversationId = c}

(* C4: with one find-or-create request completing before the next starts,  *)
(* requests for the users A, B in either order return the same             *)
(* conversation id, and exactly one non-group conversation has both as     *)
(* participants.                                                           *)
C4_SequentialFindOrCreate ==
  \A a, b \in DOMAIN usersMap :
    (a # b /\ PairResults(a, b) # {})
    => /\ Cardinality(PairResults(a, b)) = 1
       /\ OneToOneOf(a, b) = PairResults(a, b)

C4_Witness ==
  /\ tasks = {}
  /\ <<1, 3>> \in DOMAIN directResults
  /\ <<3, 1>> \in DOMAIN directResults
  /\ counters.conversationId = SeedConversations + 2

(* C5: after overlapping find-or-create requests for the same pair have    *)
(* all returned, there is exactly one non-group conversation for the pair  *)
(* and it has exactly two participant rows.                                *)
C5_ConcurrentFindOrCreate ==
  tasks = {} =>
    \A a, b \in DOMAIN usersMap :
      (a # b /\ PairResults(a, b) # {})
      => /\ Cardinality(OneToOneOf(a, b)) = 1
         /\ \A c \in OneToOneOf(a, b) : Cardinality(ParticipantRows(c)) = 2

(* a connection whose close handler has not run *)
Live(ws) == sockets[ws].readyState \in {"OPEN", "CLOSING"}

HasLiveConnection(u) == \E ws \in Conns : sockets[ws].userId = u /\ Live(ws)

HasOpenConnection(u) ==
  \E ws \in Conns : sockets[ws].userId = u /\ sockets[ws].readyState = "OPEN"

ReportedOnline(u) == toString(u) \in DOMAIN clients /\ usersMap[u].isOnline

(* C6: whenever no connect or close handler is in the middle of its        *)
(* execution, a user is reported online (registry entry and stored         *)
(* isOnline) exactly when it has at least one connection that is not       *)
(* closed.                                                                 *)
C6_OnlineIffConnected ==
  tasks = {} =>
    \A u \in DOMAIN usersMap : ReportedOnline(u) <=> HasLiveConnection(u)

(* the users handed the status event of task t in this step *)
StatusReceivers(t) ==
  {sockets[ws].userId : ws \in
     {w \in Conns : \E i \in DOMAIN sent'[w] : sent'[w][i] = UserStatusEvent(t)}}

(* C7: when a user with no connection left is announced offline to a       *)
(* conversation, the event goes to exactly the conversation's other        *)
(* participants that have an open connection.                              *)
C7_OfflineAudience ==
  [][\A t \in tasks :
       (/\ t.pc = "broadcast_getParticipants"
        /\ ~t.isOnline
        /\ t \notin tasks'
        /\ ~HasLiveConnection(t.userId))
       => StatusReceivers(t) =
            {p \in Participants(Head(t.conversations)) \ {t.userId} :
               HasOpenConnection(p)}
    ]_vars

(* C8: every open authenticated connection is the one events for its user  *)
(* are sent to, also after the same user has opened another connection.    *)
C8_EveryConnectionRegistered ==
  \A ws \in Conns :
    (sockets[ws].readyState = "OPEN" /\ sockets[ws].userId # Null)
    => /\ toString(sockets[ws].userId) \in DOMAIN clients
       /\ clients[toString(sockets[ws].userId)] = ws

(* a recipient all of whose connections are closing or closed *)
Dead(u) ==
  /\ \E ws \in Conns :
       sockets[ws].userId = u /\ sockets[ws].readyState \in {"CLOSING", "CLOSED"}
  /\ ~HasOpenConnection(u)

(* C9: when a message goes to a conversation of at least three             *)
(* participants and one recipient's connection is closed, every other      *)
(* recipient with an open connection still receives the new_message event. *)
C9_DeadRecipientIsolated ==
  [][\A t \in tasks :
       (/\ FanOut(t)
        /\ Cardinality(Participants(t.conversationId)) >= 3
        /\ \E x \in Participants(t.conversationId) \ {t.userId} : Dead(x))
       => \A y \in Participants(t.conversationId) \ {t.userId} :
            HasOpenConnection(y) => NewMessageSlots(y, t.messageId) # {}
    ]_vars

(* C10: no message without text content and without media is created by a  *)
(* chat_message frame.                                                     *)
C10_EmptyFrameRejected ==
  \A m \in DOMAIN messagesMap :
    m > SeedMessages => (messagesMap[m].content # None \/ messagesMap[m].mediaUrl # None)

----------------------------------------------------------------------------
(* The '/ws' server of src/server/websocket.ts: a connection names its     *)
(* user in a frame {type: 'user', payload: {auth, userId}}                 *)

(* wss.on('connection'): `credential` is the user the token of the request *)
(* URL proves, or Null; the handler does not read it                       *)
wsConnection(ws, credential) ==
  /\ sockets[ws].readyState = "NONE"
  /\ \A w \in Conns : w < ws => sockets[w].readyState # "NONE"
  /\ sockets' = [sockets EXCEPT ![ws] =
                    [readyState |-> "OPEN", userId |-> Null, credential |-> credential]]
  /\ sent' = [NothingSent EXCEPT ![ws] = <<Event("connection", Null, Null, Null, FALSE)>>]
  /\ UNCHANGED <<storeVars, clients, newMessages, tasks, directResults, inbound, response, statusLog, client>>

(* ws.on('message') for a 'user' frame: handleMessage does nothing with it, *)
(* then `if (type === 'user' && payload.auth)` up to `await updateUser`    *)
wsUserFrame(ws, auth, userId) ==
  /\ sockets[ws].readyState = "OPEN"
  /\ IF auth /\ userId # Null
     THEN /\ HasFreeTask
          /\ sockets' = [sockets EXCEPT ![ws].userId = userId]
          /\ clients' = MapSet(clients, toString(userId), ws)
          /\ usersMap' = updateUser(usersMap, userId, [isOnline |-> TRUE])
          /\ tasks' = tasks \cup {NewTask("ws_updateUser", ws, userId)}
     ELSE UNCHANGED <<sockets, clients, usersMap, tasks>>
  /\ sent' = NothingSent
  /\ UNCHANGED <<conversationsMap, participantsMap, messagesMap, messageStatusMap,
                 counters, newMessages, directResults, inbound, response, statusLog, client>>

(* after `await storage.updateUser`: broadcastUserStatus(userId, true) up  *)
(* to its first await                                                      *)
wsUserResume(t) ==
  /\ t.pc = "ws_updateUser"
  /\ tasks' = Replace(t, [t EXCEPT
        !.pc = "ws_getConversations",
        !.isOnline = TRUE,
        !.conversations =
           getConversationsByUserId(participantsMap, conversationsMap, counters, t.userId)])
  /\ sent' = NothingSent
  /\ UNCHANGED <<storeVars, clients, sockets, newMessages, directResults, inbound, response, statusLog, client>>

wsBroadcastNext(t, conversations) ==
  IF conversations = <<>>
  THEN tasks \ {t}
  ELSE Replace(t, [t EXCEPT
         !.pc = "ws_getParticipants",
         !.conversations = conversations,
         !.participants =
            getParticipantsByConversationId(participantsMap, counters, Head(conversations))])

(* broadcastUserStatus of the '/ws' server, one conversation per step *)
wsBroadcastUserStatus(t) ==
  /\ \/ /\ t.pc = "ws_getConversations"
        /\ tasks' = wsBroadcastNext(t, t.conversations)
        /\ sent' = NothingSent
     \/ /\ t.pc = "ws_getParticipants"
        /\ sent' = SendToOthers(NothingSent, t.participants, t.userId,
                                Event("user", Null, t.userId, Null, t.isOnline))
        /\ tasks' = wsBroadcastNext(t, Tail(t.conversations))
  /\ UNCHANGED <<storeVars, clients, sockets, newMessages, directResults, inbound, response, statusLog, client>>

NextLegacy ==
  \/ \E ws \in Conns : \E credential \in {Null, 1} : wsConnection(ws, credential)
  \/ \E ws \in Conns : \E auth \in BOOLEAN : \E userId \in DOMAIN usersMap \cup {Null} :
        /\ sockets[ws].userId = Null   \* the client sends the frame once, on open
        /\ wsUserFrame(ws, auth, userId)
  \/ \E t \in tasks : wsUserResume(t)
  \/ \E t \in tasks : wsBroadcastUserStatus(t)

SpecLegacy == Init /\ [][NextLegacy]_vars

(* C12: a connection acts as, and is registered under, no user other than  *)
(* the one its credential proves.                                          *)
C12_IdentityFromCredential ==
  /\ \A ws \in Conns :
       sockets[ws].userId # Null => sockets[ws].userId = sockets[ws].credential
  /\ \A u \in DOMAIN usersMap :
       toString(u) \in DOMAIN clients => sockets[clients[toString(u)]].credential = u

----------------------------------------------------------------------------
(* Inbound frames recorded, and a store that may fail in createMessage *)

MaxFrames == 2  \* inbound frames recorded

(* handleChatMessage when `await storage.createMessage` throws: the catch  *)
(* block logs and returns                                                  *)
handleChatMessageFails(ws, message) ==
  /\ sockets[ws].readyState = "OPEN"
  /\ sockets[ws].userId # Null
  /\ message.type = "chat_message"
  /\ message.conversationId # Null
  /\ sent' = NothingSent
  /\ UNCHANGED <<storeVars, clients, sockets, newMessages, tasks, directResults>>

(* one frame delivered to ws.on('message') *)
receive(ws, message, storeFails) ==
  /\ inbound.n < MaxFrames
  /\ inbound' = [n |-> inbound.n + 1, ws |-> ws, message |-> message,
                 storeFails |-> storeFails]
  /\ IF storeFails THEN handleChatMessageFails(ws, message) ELSE onMessage(ws, message)
  /\ UNCHANGED <<response, statusLog, client>>

NextAck ==
  \/ \E ws \in Conns : \E user \in AuthInputs(ws) : Connection(ws, user)
  \/ \E t \in tasks : ConnectionResume(t)
  \/ \E t \in tasks : broadcastUserStatus(t)
  \/ \E ws \in Conns : \E message \in WSMessages : \E storeFails \in BOOLEAN :
        /\ message.conversationId # Null => MayCreateMessage
        /\ receive(ws, message, storeFails)
  \/ \E t \in tasks : ChatGetParticipants(t)
  \/ \E t \in tasks : ChatCreateStatus(t)
  \/ \E t \in tasks : ChatBroadcast(t)

SpecAck == Init /\ [][NextAck]_vars

(* the step takes a chat_message frame of an authenticated connection *)
ChatFrameTaken ==
  /\ inbound'.n # inbound.n
  /\ inbound'.message.type = "chat_message"
  /\ sockets[inbound'.ws].userId # Null

HasEvent(events, type) == \E i \in DOMAIN events : events[i].type = type

(* C13: a chat_message frame of an authenticated connection is not         *)
(* dropped: while the store works, the step that takes it either sends an  *)
(* error event to the connection or starts the handler that ends with the  *)
(* message_sent confirmation.                                              *)
C13_FrameAnswered ==
  [][(ChatFrameTaken /\ ~inbound'.storeFails)
     => \/ HasEvent(sent'[inbound'.ws], "error")
        \/ \E t \in tasks' \ tasks : t.ws = inbound'.ws /\ t.pc = "chat_createMessage"
    ]_vars

(* C14: when the store fails in createMessage, the sender gets an error    *)
(* event and nobody gets a new_message event.                              *)
C14_StoreFailureReported ==
  [][(ChatFrameTaken /\ inbound'.storeFails)
     => /\ HasEvent(sent'[inbound'.ws], "error")
        /\ \A ws \in Conns : ~HasEvent(sent'[ws], "new_message")
    ]_vars

----------------------------------------------------------------------------
(* typing_indicator frames *)

TypingFrame(conversationId) ==
  [type |-> "typing_indicator", conversationId |-> conversationId, isTyping |-> TRUE]

(* ws.on('message') -> handleMessage -> handleTypingIndicator, up to       *)
(* `await storage.getParticipantsByConversationId`                         *)
handleTypingIndicator(ws, message) ==
  /\ sockets[ws].readyState = "OPEN"
  /\ LET userId == sockets[ws].userId
     IN IF userId = Null
        THEN /\ sent' = wsSend(NothingSent, ws, ErrorEvent)
             /\ UNCHANGED tasks
        ELSE IF message.conversationId = Null
        THEN /\ sent' = NothingSent
             /\ UNCHANGED tasks
        ELSE /\ HasFreeTask
             /\ tasks' = tasks \cup
                  {[NewTask("typing_getParticipants", ws, userId) EXCEPT
                      !.conversationId = message.conversationId,
                      !.flag = message.isTyping,
                      !.participants = getParticipantsByConversationId(
                          participantsMap, counters, message.conversationId)]}
             /\ sent' = NothingSent
  /\ UNCHANGED <<storeVars, clients, sockets, newMessages, directResults, inbound, response, statusLog, client>>

TypingEvent(t) == Event("typing_indicator", Null, t.userId, t.conversationId, t.flag)

(* after the await: the loop over the participants *)
TypingBroadcast(t) ==
  /\ t.pc = "typing_getParticipants"
  /\ sent' = SendToOthers(NothingSent, t.participants, t.userId, TypingEvent(t))
  /\ tasks' = tasks \ {t}
  /\ UNCHANGED <<storeVars, clients, sockets, newMessages, directResults, inbound, response, statusLog, client>>

NextTyping ==
  \/ \E ws \in Conns : \E user \in AuthInputs(ws) : Connection(ws, user)
  \/ \E t \in tasks : ConnectionResume(t)
  \/ \E ws \in Conns : BeginClose(ws)
  \/ \E ws \in Conns : Close(ws)
  \/ \E t \in tasks : CloseResume(t)
  \/ \E t \in tasks : broadcastUserStatus(t)
  \/ \E ws \in Conns : \E c \in (1..SeedConversations) \cup {Null} :
        handleTypingIndicator(ws, TypingFrame(c))
  \/ \E t \in tasks : TypingBroadcast(t)

SpecTyping == Init /\ [][NextTyping]_vars

(* the users handed the typing event of task t in this step *)
TypingReceivers(t) ==
  {sockets[ws].userId : ws \in
     {w \in Conns : \E i \in DOMAIN sent'[w] : sent'[w][i] = TypingEvent(t)}}

(* C15: a typing_indicator frame changes no store record, and its event    *)
(* goes to exactly the participants of the conversation, other than the    *)
(* sender, that have an open connection.                                   *)
C15_TypingAudience ==
  [][\A t \in tasks :
       (t.pc = "typing_getParticipants" /\ t \notin tasks')
       => /\ TypingReceivers(t) =
               {p \in Participants(t.conversationId) \ {t.userId} : HasOpenConnection(p)}
          /\ UNCHANGED <<conversationsMap, participantsMap, messagesMap,
                         messageStatusMap, counters, usersMap>>
    ]_vars

----------------------------------------------------------------------------
(* message_status frames (read receipts) *)

StatusFrame(messageId, isReadNow) ==
  [type |-> "message_status", messageId |-> messageId, isRead |-> isReadNow]

(* ws.on('message') -> handleMessage -> handleMessageStatus, up to         *)
(* `await storage.updateMessageStatus`                                     *)
handleMessageStatus(ws, message) ==
  /\ sockets[ws].readyState = "OPEN"
  /\ LET userId == sockets[ws].userId
     IN IF userId = Null
        THEN /\ sent' = wsSend(NothingSent, ws, ErrorEvent)
             /\ UNCHANGED <<messageStatusMap, tasks>>
        ELSE IF message.messageId = Null
        THEN /\ sent' = NothingSent
             /\ UNCHANGED <<messageStatusMap, tasks>>
        ELSE /\ HasFreeTask
             /\ messageStatusMap' =
                  updateMessageStatus(messageStatusMap, message.messageId, userId,
                                      message.isRead)
             /\ tasks' = tasks \cup
                  {[NewTask("status_updateMessageStatus", ws, userId) EXCEPT
                      !.messageId = message.messageId,
                      !.flag = message.isRead]}
             /\ sent' = NothingSent
  /\ UNCHANGED <<usersMap, conversationsMap, participantsMap, messagesMap, counters,
                 clients, sockets, newMessages, directResults, inbound, response, statusLog, client>>

(* after the update: `await storage.getMessage(payload.messageId)` *)
StatusGetMessage(t) ==
  /\ t.pc = "status_updateMessageStatus"
  /\ tasks' = Replace(t,
       IF t.messageId \in DOMAIN messagesMap
       THEN [t EXCEPT !.pc = "status_getMessage",
                      !.author = messagesMap[t.messageId].userId,
                      !.conversationId = messagesMap[t.messageId].conversationId]
       ELSE [t EXCEPT !.pc = "status_getMessage"])
  /\ sent' = NothingSent
  /\ UNCHANGED <<storeVars, clients, sockets, newMessages, directResults, inbound, response, statusLog, client>>

StatusUpdateEvent(t) ==
  Event("message_status_update", t.messageId, t.userId, t.conversationId, t.flag)

(* `if (message) this.sendToUser(message.userId, ...)` *)
StatusNotify(t) ==
  /\ t.pc = "status_getMessage"
  /\ sent' = IF t.author # Null
             THEN sendToUser(NothingSent, t.author, StatusUpdateEvent(t))
             ELSE NothingSent
  /\ tasks' = tasks \ {t}
  /\ UNCHANGED <<storeVars, clients, sockets, newMessages, directResults, inbound, response, statusLog, client>>

(* the seeded messages read receipts are sent for: 5 (by user 1, a row for *)
(* user 2), 6 (by user 2, a row for user 1), 7 (by user 2, no row)         *)
StatusFrames ==
  {StatusFrame(m, r) : m \in {SeedMessages - 2, SeedMessages - 1, SeedMessages}, r \in BOOLEAN}
  \cup {StatusFrame(Null, TRUE)}

NextReceipt ==
  \/ \E ws \in Conns : \E user \in AuthInputs(ws) : Connection(ws, user)
  \/ \E t \in tasks : ConnectionResume(t)
  \/ \E t \in tasks : broadcastUserStatus(t)
  \/ \E ws \in Conns : \E message \in StatusFrames : handleMessageStatus(ws, message)
  \/ \E t \in tasks : StatusGetMessage(t)
  \/ \E t \in tasks : StatusNotify(t)

SpecReceipt == Init /\ [][NextReceipt]_vars

(* the sockets handed the status update of task t in this step *)
StatusUpdateSockets(t) ==
  {ws \in Conns : \E i \in DOMAIN sent'[ws] : sent'[ws][i] = StatusUpdateEvent(t)}

(* C16: the status update of a read receipt goes to connections of the     *)
(* message's author only, and to no connection of the reader.              *)
C16_OnlyAuthorNotified ==
  [][\A t \in tasks :
       (t.pc = "status_getMessage" /\ t \notin tasks')
       => \A ws \in StatusUpdateSockets(t) :
            /\ sockets[ws].userId = messagesMap[t.messageId].userId
            /\ sockets[ws].userId # t.userId
    ]_vars

----------------------------------------------------------------------------
(* POST /api/messages *)

Body(conversationId, content, mediaUrl) ==
  [conversationId |-> conversationId, content |-> content, mediaUrl |-> mediaUrl]

(* getParticipant: the participant row of (userId, conversationId) exists *)
getParticipant(pm, userId, conversationId) ==
  \E p \in DOMAIN pm : pm[p].userId = userId /\ pm[p].conversationId = conversationId

(* updateConversation(id, {lastMessageId}) *)
updateConversation(cm, id, lastMessageId) ==
  IF id \in DOMAIN cm THEN [cm EXCEPT ![id].lastMessageId = lastMessageId] ELSE cm

Respond(user, status) == [user |-> user, status |-> status]

(* the handler up to `await storage.getConversation` *)
httpPostMessage(user, body) ==
  /\ IF user = Null
     THEN response' = Respond(user, 401) /\ UNCHANGED tasks
     ELSE IF body.conversationId = Null
     THEN response' = Respond(user, 400) /\ UNCHANGED tasks
     ELSE IF body.content = None /\ body.mediaUrl = None
     THEN response' = Respond(user, 400) /\ UNCHANGED tasks
     ELSE /\ HasFreeTask
          /\ tasks' = tasks \cup
               {[NewTask("http_getConversation", Null, user) EXCEPT
                   !.conversationId = body.conversationId,
                   !.content = body.content,
                   !.mediaUrl = body.mediaUrl,
                   !.flag = body.conversationId \in DOMAIN conversationsMap]}
          /\ UNCHANGED response
  /\ sent' = NothingSent
  /\ UNCHANGED <<storeVars, clients, sockets, newMessages, directResults, inbound, statusLog, client>>

(* `if (!conversation)` 404, else `await storage.getParticipant` *)
httpGetConversationResume(t) ==
  /\ t.pc = "http_getConversation"
  /\ IF ~t.flag
     THEN /\ response' = Respond(t.userId, 404)
          /\ tasks' = tasks \ {t}
     ELSE /\ tasks' = Replace(t, [t EXCEPT
                !.pc = "http_getParticipant",
                !.flag = getParticipant(participantsMap, t.userId, t.conversationId)])
          /\ UNCHANGED response
  /\ sent' = NothingSent
  /\ UNCHANGED <<storeVars, clients, sockets, newMessages, directResults, inbound, statusLog, client>>

(* `if (!participant)` 403, else `await storage.createMessage` *)
httpGetParticipantResume(t) ==
  /\ t.pc = "http_getParticipant"
  /\ IF ~t.flag
     THEN /\ response' = Respond(t.userId, 403)
          /\ tasks' = tasks \ {t}
          /\ UNCHANGED storeVars
     ELSE LET messageData == [conversationId |-> t.conversationId,
                              userId |-> t.userId,
                              content |-> t.content,
                              mediaUrl |-> t.mediaUrl]
          IN /\ MayCreateMessage
             /\ messagesMap' = createMessageMap(messagesMap, counters, messageData)
             /\ conversationsMap' =
                   createMessageConversations(conversationsMap, counters, messageData)
             /\ counters' = [counters EXCEPT !.messageId = @ + 1]
             /\ tasks' = Replace(t, [t EXCEPT !.pc = "http_createMessage",
                                              !.messageId = counters.messageId])
             /\ UNCHANGED <<usersMap, participantsMap, messageStatusMap, response, statusLog, client>>
  /\ sent' = NothingSent
  /\ UNCHANGED <<clients, sockets, newMessages, directResults, inbound, statusLog, client>>

(* `await storage.getParticipantsByConversationId` *)
httpGetParticipants(t) ==
  /\ t.pc = "http_createMessage"
  /\ tasks' = Replace(t, [t EXCEPT
        !.pc = "http_createMessageStatus",
        !.idx = 0,
        !.participants =
           getParticipantsByConversationId(participantsMap, counters, t.conversationId)])
  /\ sent' = NothingSent
  /\ UNCHANGED <<storeVars, clients, sockets, newMessages, directResults, inbound, response, statusLog, client>>

(* the status loop: one createMessageStatus per step *)
httpCreateStatus(t) ==
  /\ t.pc = "http_createMessageStatus"
  /\ t.idx < Len(t.participants)
  /\ LET participant == t.participants[t.idx + 1]
     IN messageStatusMap' = createMessageStatus(messageStatusMap, counters,
          [messageId |-> t.messageId, userId |-> participant,
           isRead |-> isRead(participant, t.userId)])
  /\ counters' = [counters EXCEPT !.messageStatusId = @ + 1]
  /\ tasks' = Replace(t, [t EXCEPT !.idx = @ + 1])
  /\ sent' = NothingSent
  /\ UNCHANGED <<usersMap, conversationsMap, participantsMap, messagesMap,
                 clients, sockets, newMessages, directResults, inbound, response, statusLog, client>>

(* after the loop: `await storage.updateConversation` *)
httpUpdateConversation(t) ==
  /\ t.pc = "http_createMessageStatus"
  /\ t.idx = Len(t.participants)
  /\ conversationsMap' = updateConversation(conversationsMap, t.conversationId, t.messageId)
  /\ tasks' = Replace(t, [t EXCEPT !.pc = "http_updateConversation"])
  /\ sent' = NothingSent
  /\ UNCHANGED <<usersMap, participantsMap, messagesMap, messageStatusMap, counters,
                 clients, sockets, newMessages, directResults, inbound, response, statusLog, client>>

(* the new_message loop over chatWss.sendToUser and the 201 response *)
httpBroadcast(t) ==
  /\ t.pc = "http_updateConversation"
  /\ sent' = SendToOthers(NothingSent, t.participants, t.userId,
                Event("new_message", t.messageId, t.userId, t.conversationId, FALSE))
  /\ newMessages' = [ws \in Conns |-> newMessages[ws] \o NewMessageIds(sent'[ws])]
  /\ response' = Respond(t.userId, 201)
  /\ tasks' = tasks \ {t}
  /\ UNCHANGED <<storeVars, clients, sockets, directResults, inbound, statusLog, client>>

(* request bodies: each seeded conversation, one that does not exist, none *)
Bodies ==
  {Body(c, "hi", None) : c \in (1..(SeedConversations + 1)) \cup {Null}}
  \cup {Body(1, None, "url"), Body(1, None, None)}

(* who calls the endpoint: a participant of both seeded conversations, a   *)
(* participant of the second only, and a request without a valid token     *)
HttpUsers == {1, SeedUsers, Null}

NextHttp ==
  \/ \E ws \in Conns : Connection(ws, ws)
  \/ \E t \in tasks : ConnectionResume(t)
  \/ \E t \in tasks : broadcastUserStatus(t)
  \/ \E user \in HttpUsers : \E body \in Bodies : httpPostMessage(user, body)
  \/ \E t \in tasks : httpGetConversationResume(t)
  \/ \E t \in tasks : httpGetParticipantResume(t)
  \/ \E t \in tasks : httpGetParticipants(t)
  \/ \E t \in tasks : httpCreateStatus(t)
  \/ \E t \in tasks : httpUpdateConversation(t)
  \/ \E t \in tasks : httpBroadcast(t)
  \/ \E ws \in Conns : \E message \in ChatMessages(1..SeedConversations) :
        /\ MayCreateMessage
        /\ handleMessage(ws, message)
  \/ \E t \in tasks : ChatGetParticipants(t)
  \/ \E t \in tasks : ChatCreateStatus(t)
  \/ \E t \in tasks : ChatBroadcast(t)

SpecHttp == Init /\ [][NextHttp]_vars

(* the endpoint persists a message for this sender and body in this store *)
httpAccepts(user, body) ==
  /\ user # Null
  /\ body.conversationId # Null
  /\ body.content # None \/ body.mediaUrl # None
  /\ body.conversationId \in DOMAIN conversationsMap
  /\ getParticipant(participantsMap, user, body.conversationId)

C11_AuthFailureCloses ==
  \A ws \in Conns : sockets[ws].readyState = "OPEN" => sockets[ws].userId # Null

(* C17: a chat_message frame of a user that is not a participant of the    *)
(* target conversation creates no message.                                 *)
C17_NonParticipantRejected ==
  \A m \in DOMAIN messagesMap :
    m > SeedMessages => messagesMap[m].userId \in Participants(messagesMap[m].conversationId)

ChatPcs == {"chat_createMessage", "chat_createMessageStatus"}

(* C20: no two chat_message frames of one connection are being processed   *)
(* at the same time.                                                       *)
C20_OneEventPerConnection ==
  \A t1, t2 \in tasks :
    (t1.pc \in ChatPcs /\ t2.pc \in ChatPcs /\ t1.ws = t2.ws) => t1 = t2

(* a user none of whose connections was handed the new_message event of m *)
NeverReceived(u, m) ==
  \A ws \in Conns :
    sockets[ws].userId = u => \A i \in DOMAIN newMessages[ws] : newMessages[ws][i] # m

BadFrameTaken ==
  /\ inbound'.n = inbound.n + 1
  /\ inbound'.message.type \in {"unknown", "malformed"}
  /\ sockets[inbound'.ws].userId # Null

(* C21: an unrecognized or unparsable frame on an authenticated connection *)
(* sends one error event to that connection and nothing to any other; the  *)
(* connection stays open, authenticated and registered as it was, and the  *)
(* store is unchanged.                                                     *)
C21_UnknownTypeIsNonFatal ==
  [][BadFrameTaken
     => /\ sent' = [NothingSent EXCEPT ![inbound'.ws] = <<ErrorEvent>>]
        /\ UNCHANGED <<storeVars, clients, sockets, tasks>>
    ]_vars

(* the second user's registered connection has just been answered with an  *)
(* error event for a frame of unknown type                                 *)
C21_Witness ==
  /\ inbound.message.type = "unknown"
  /\ sockets[inbound.ws].userId = 2
  /\ sockets[inbound.ws].readyState = "OPEN"
  /\ toString(2) \in DOMAIN clients
  /\ clients[toString(2)] = inbound.ws
  /\ sent[inbound.ws] = <<ErrorEvent>>

----------------------------------------------------------------------------
(* POST /api/conversations *)

ConversationBody(name, isGroup, participantIds) ==
  [name |-> name, isGroup |-> isGroup, participantIds |-> participantIds]

(* addParticipant: always inserts a new row under the next id *)
addParticipant(pm, cnt, insertParticipant) ==
  MapSet(pm, cnt.participantId, insertParticipant)

(* the handler up to `await storage.createConversation` *)
postConversation(user, body) ==
  /\ IF user = Null
     THEN response' = Respond(user, 401) /\ UNCHANGED <<conversationsMap, counters, tasks>>
     ELSE IF body.isGroup /\ (body.name = None \/ Len(body.participantIds) = 0)
     THEN response' = Respond(user, 400) /\ UNCHANGED <<conversationsMap, counters, tasks>>
     ELSE /\ HasFreeTask
          /\ conversationsMap' = MapSet(conversationsMap, counters.conversationId,
                                        [isGroup |-> body.isGroup, lastMessageId |-> Null])
          /\ counters' = [counters EXCEPT !.conversationId = @ + 1]
          /\ tasks' = tasks \cup
               {[NewTask("conv_createConversation", Null, user) EXCEPT
                   !.conversationId = counters.conversationId,
                   !.flag = body.isGroup,
                   !.participants = body.participantIds]}
          /\ UNCHANGED response
  /\ sent' = NothingSent
  /\ UNCHANGED <<usersMap, participantsMap, messagesMap, messageStatusMap,
                 clients, sockets, newMessages, directResults, inbound, statusLog, client>>

(* `await storage.addParticipant({userId: user.id, isAdmin: isGroup})` *)
convAddCreator(t) ==
  /\ t.pc = "conv_createConversation"
  /\ participantsMap' = addParticipant(participantsMap, counters,
        [userId |-> t.userId, conversationId |-> t.conversationId, isAdmin |-> t.flag])
  /\ counters' = [counters EXCEPT !.participantId = @ + 1]
  /\ tasks' = Replace(t, [t EXCEPT !.pc = "conv_addParticipant", !.idx = 0])
  /\ sent' = NothingSent
  /\ UNCHANGED <<usersMap, conversationsMap, messagesMap, messageStatusMap,
                 wsVars, directResults>>

(* the participantIds loop: `await storage.getUser(participantId)` *)
convGetUser(t) ==
  /\ t.pc = "conv_addParticipant"
  /\ t.flag
  /\ t.idx < Len(t.participants)
  /\ LET participantId == t.participants[t.idx + 1]
     IN tasks' = Replace(t, [t EXCEPT
          !.pc = "conv_getUser",
          !.otherUser = IF participantId \in DOMAIN usersMap THEN participantId ELSE Null])
  /\ sent' = NothingSent
  /\ UNCHANGED <<storeVars, wsVars, directResults>>

(* `if (participantUser) await storage.addParticipant(...)` *)
convAddParticipant(t) ==
  /\ t.pc = "conv_getUser"
  /\ IF t.otherUser # Null
     THEN /\ participantsMap' = addParticipant(participantsMap, counters,
               [userId |-> t.otherUser, conversationId |-> t.conversationId,
                isAdmin |-> FALSE])
          /\ counters' = [counters EXCEPT !.participantId = @ + 1]
     ELSE UNCHANGED <<participantsMap, counters>>
  /\ tasks' = Replace(t, [t EXCEPT !.pc = "conv_addParticipant", !.idx = @ + 1,
                                   !.otherUser = Null])
  /\ sent' = NothingSent
  /\ UNCHANGED <<usersMap, conversationsMap, messagesMap, messageStatusMap,
                 wsVars, directResults>>

(* after the loop: the two reads for the response body, then 201 *)
convGetParticipants(t) ==
  /\ t.pc = "conv_addParticipant"
  /\ ~t.flag \/ t.idx = Len(t.participants)
  /\ tasks' = Replace(t, [t EXCEPT !.pc = "conv_getParticipants"])
  /\ sent' = NothingSent
  /\ UNCHANGED <<storeVars, wsVars, directResults>>

convRespond(t) ==
  /\ t.pc = "conv_getParticipants"
  /\ response' = Respond(t.userId, 201)
  /\ tasks' = tasks \ {t}
  /\ sent' = NothingSent
  /\ UNCHANGED <<storeVars, clients, sockets, newMessages, directResults, inbound, statusLog, client>>

(* participantIds lists: one other user, the caller's own id for the first *)
(* user, one id twice, an unknown id, none                                 *)
ParticipantIdLists == {<<>>, <<2>>, <<1>>, <<SeedUsers, SeedUsers>>, <<SeedUsers + 1>>}

ConversationBodies ==
  {ConversationBody("team", TRUE, ids) : ids \in ParticipantIdLists}
  \cup {ConversationBody(None, TRUE, <<2>>), ConversationBody(None, FALSE, <<2>>)}

(* the direct calls, and the third user asking for itself *)
ConversationDirectCalls == DirectCalls \cup {<<SeedUsers, SeedUsers>>}

NextConversations ==
  \/ \E user \in {1, 2, Null} : \E body \in ConversationBodies :
        MayStartDirect /\ postConversation(user, body)
  \/ \E t \in tasks : convAddCreator(t)
  \/ \E t \in tasks : convGetUser(t)
  \/ \E t \in tasks : convAddParticipant(t)
  \/ \E t \in tasks : convGetParticipants(t)
  \/ \E t \in tasks : convRespond(t)
  \/ \E call \in ConversationDirectCalls :
        MayStartDirect /\ directConversation(call[1], call[2])
  \/ \E t \in tasks : directGetUserResume(t)
  \/ \E t \in tasks : directScanResume(t)
  \/ \E t \in tasks : directAddParticipant(t)
  \/ \E t \in tasks : directCreatedReturn(t)

SpecConversations == Init /\ [][NextConversations]_vars

(* the participant rows of (user, conversation) *)
RowsOf(u, c) ==
  {p \in DOMAIN participantsMap :
     participantsMap[p].userId = u /\ participantsMap[p].conversationId = c}

(* C22: the store holds at most one Participant row per (user,             *)
(* conversation) pair.                                                     *)
C22_OneRowPerPair ==
  \A u \in DOMAIN usersMap : \A c \in DOMAIN conversationsMap :
    Cardinality(RowsOf(u, c)) <= 1

(* C24: once its creation has completed, a conversation with isGroup false *)
(* has exactly two participants, whichever endpoint created it.            *)
C24_DirectHasTwoParticipants ==
  \A c \in DOMAIN conversationsMap :
    (~conversationsMap[c].isGroup /\ \A t \in tasks : t.conversationId # c)
    => /\ Cardinality(ParticipantRows(c)) = 2
       /\ Cardinality(Participants(c)) = 2

----------------------------------------------------------------------------
(* Messages and read receipts in conversations made by POST /api/conversations *)

(* group requests of the first user: with another user, with its own id *)
GroupBodies == {ConversationBody("team", TRUE, ids) : ids \in {<<2>>, <<1>>}}

(* the conversation the requests create *)
NewConversation == SeedConversations + 1

NextStatusRows ==
  \/ Connection(1, 1)
  \/ \E t \in tasks : ConnectionResume(t)
  \/ \E t \in tasks : broadcastUserStatus(t)
  \/ \E body \in GroupBodies :
        /\ counters.conversationId = NewConversation
        /\ postConversation(1, body)
  \/ \E t \in tasks : convAddCreator(t)
  \/ \E t \in tasks : convGetUser(t)
  \/ \E t \in tasks : convAddParticipant(t)
  \/ \E t \in tasks : convGetParticipants(t)
  \/ \E t \in tasks : convRespond(t)
  \/ \E c \in {1, NewConversation} : httpPostMessage(1, Body(c, "hi", None))
  \/ \E t \in tasks : httpGetConversationResume(t)
  \/ \E t \in tasks : httpGetParticipantResume(t)
  \/ \E t \in tasks : httpGetParticipants(t)
  \/ \E t \in tasks : httpCreateStatus(t)
  \/ \E t \in tasks : httpUpdateConversation(t)
  \/ \E t \in tasks : httpBroadcast(t)
  \/ \E c \in {1, NewConversation} :
        /\ MayCreateMessage
        /\ handleMessage(1, Frame("chat_message", c, "hi", None))
  \/ \E t \in tasks : ChatGetParticipants(t)
  \/ \E t \in tasks : ChatCreateStatus(t)
  \/ \E t \in tasks : ChatBroadcast(t)
  \/ \E r \in BOOLEAN : handleMessageStatus(1, StatusFrame(SeedMessages + 1, r))
  \/ \E t \in tasks : StatusGetMessage(t)
  \/ \E t \in tasks : StatusNotify(t)

SpecStatusRows == Init /\ [][NextStatusRows]_vars

(* C23: no (message, user) pair has two MessageStatus rows, and every      *)
(* message sent over the connection or HTTP, once handled, has a row for   *)
(* each user that was a participant when its rows were created.            *)
C23_OneStatusRowPerPair ==
  \A m \in DOMAIN messagesMap :
    /\ \A u \in DOMAIN usersMap : Cardinality(StatusRows(m, u)) <= 1
    /\ (Handled(m) /\ tasks = {} /\ messagesMap[m].conversationId \in DOMAIN conversationsMap)
       => \A u \in Participants(messagesMap[m].conversationId) : StatusRows(m, u) # {}

----------------------------------------------------------------------------
(* Identifier representations in handleChatMessage and handleTypingIndicator *)

(* an identifier value: a number, a string, or an ObjectId object (ref     *)
(* tells objects apart)                                                    *)
Id(rep, value, ref) == [rep |-> rep, value |-> value, ref |-> ref]

(* String(id): the canonical string form *)
String(id) == toString(id.value)

(* isSameId(id1, id2): String(id1) === String(id2) *)
isSameId(id1, id2) == String(id1) = String(id2)

(* `a === b`: primitives by type and value, objects by identity *)
strictEquals(a, b) ==
  IF a.rep = "objectId" \/ b.rep = "objectId"
  THEN a.rep = b.rep /\ a.ref = b.ref
  ELSE a.rep = b.rep /\ a.value = b.value

(* participant.userId as the store returns it: numbers from MemStorage,    *)
(* one fresh ObjectId per document from MongodbStorage                     *)
RECURSIVE storedIds(_, _, _)
storedIds(storage, participants, n) ==
  IF n = 0 THEN <<>>
  ELSE Append(storedIds(storage, participants, n - 1),
              IF storage = "memory" THEN Id("number", participants[n], 0)
              ELSE Id("objectId", participants[n], n))

(* the handler for a chat_message or typing_indicator frame of the sender, *)
(* up to the first await after getParticipantsByConversationId             *)
idsFrame(type, userId, storage, conversationId) ==
  /\ HasFreeTask
  /\ LET participants == getParticipantsByConversationId(
                            participantsMap, counters, conversationId)
     IN tasks' = tasks \cup
          {[pc |-> IF type = "chat_message" THEN "ids_createMessageStatus"
                   ELSE "ids_broadcast",
            type |-> type, userId |-> userId, idx |-> 0,
            participants |-> storedIds(storage, participants, Len(participants)),
            statuses |-> <<>>, recipients |-> <<>>]}
  /\ sent' = NothingSent
  /\ UNCHANGED <<storeVars, wsVars, directResults>>

(* `isRead: participant.userId === userId`, one row per step *)
idsCreateStatus(t) ==
  /\ t.pc = "ids_createMessageStatus"
  /\ tasks' = Replace(t,
       IF t.idx < Len(t.participants)
       THEN [t EXCEPT !.idx = @ + 1,
                      !.statuses = Append(@, strictEquals(t.participants[t.idx + 1], t.userId))]
       ELSE [t EXCEPT !.pc = "ids_broadcast"])
  /\ sent' = NothingSent
  /\ UNCHANGED <<storeVars, wsVars, directResults>>

(* the registry keys sendToUser is called with, in loop order *)
RECURSIVE idsRecipients(_, _, _)
idsRecipients(participants, userId, n) ==
  IF n = 0 THEN <<>>
  ELSE idsRecipients(participants, userId, n - 1) \o
       (IF ~strictEquals(participants[n], userId)
        THEN <<String(participants[n])>> ELSE <<>>)

(* `if (participant.userId !== userId) this.sendToUser(participant.userId, ...)` *)
idsBroadcast(t) ==
  /\ t.pc = "ids_broadcast"
  /\ tasks' = Replace(t, [t EXCEPT
        !.pc = "ids_done",
        !.recipients = idsRecipients(t.participants, t.userId, Len(t.participants))])
  /\ sent' = NothingSent
  /\ UNCHANGED <<storeVars, wsVars, directResults>>

idsReturn(t) ==
  /\ t.pc = "ids_done"
  /\ tasks' = tasks \ {t}
  /\ sent' = NothingSent
  /\ UNCHANGED <<storeVars, wsVars, directResults>>

(* the sender's id as the connection handler closed over it *)
SenderIds ==
  {Id(rep, value, 0) : rep \in {"number", "string", "objectId"}, value \in 1..SeedUsers}

NextIds ==
  \/ \E type \in {"chat_message", "typing_indicator"} : \E userId \in SenderIds :
     \E storage \in {"memory", "mongodb"} : \E c \in 1..SeedConversations :
        idsFrame(type, userId, storage, c)
  \/ \E t \in tasks : idsCreateStatus(t)
  \/ \E t \in tasks : idsBroadcast(t)
  \/ \E t \in tasks : idsReturn(t)

SpecIds == Init /\ [][NextIds]_vars

(* C25: a participant whose identifier has the same canonical string form  *)
(* as the sender's is treated as the sender, whatever the representations: *)
(* it is left out of the fan-out and its status row is created as read.    *)
C25_CanonicalIdEquality ==
  \A t \in tasks :
    t.pc = "ids_done"
    => \A i \in DOMAIN t.participants :
         isSameId(t.participants[i], t.userId)
         => /\ \A j \in DOMAIN t.recipients : t.recipients[j] # String(t.userId)
            /\ t.type = "chat_message" => t.statuses[i]

----------------------------------------------------------------------------
(* the 'close' handler of ws runs in this step, and ws was the only        *)
(* connection of its user that was not closed                              *)
ClosesOnlyConnection(ws) ==
  /\ Live(ws)
  /\ sockets'[ws].readyState = "CLOSED"
  /\ sockets[ws].userId # Null
  /\ \A w \in Conns \ {ws} : sockets[w].userId = sockets[ws].userId => ~Live(w)

(* the connections the registry points at *)
Registered == {clients[k] : k \in DOMAIN clients}

(* C26: when the close handler of an authenticated connection runs and it  *)
(* was its user's only connection, the connection leaves the registry and  *)
(* the store records the user offline with a lastSeen time; a closed       *)
(* connection is never registered, never sent an event and never changes   *)
(* again.                                                                  *)
C26_ClosedIsTerminal ==
  /\ [][\A ws \in Conns :
          ClosesOnlyConnection(ws)
          => /\ ws \notin {clients'[k] : k \in DOMAIN clients'}
             /\ toString(sockets[ws].userId) \notin DOMAIN clients'
             /\ ~usersMap'[sockets[ws].userId].isOnline
             /\ usersMap'[sockets[ws].userId].lastSeen = "now"]_vars
  /\ [](\A ws \in Conns :
          sockets[ws].readyState = "CLOSED"
          => sent[ws] = <<>> /\ ws \notin Registered)
  /\ [][\A ws \in Conns :
          sockets[ws].readyState = "CLOSED" => sockets'[ws] = sockets[ws]]_vars

(* the first user's only connection was closed, its handlers have          *)
(* finished, and another user is still connected                           *)
C26_Witness ==
  /\ sockets[1].readyState = "CLOSED"
  /\ sockets[1].userId = 1
  /\ \A w \in Conns \ {1} : sockets[w].userId # 1
  /\ \E w \in Conns : sockets[w].userId = 2 /\ sockets[w].readyState = "OPEN"
  /\ tasks = {}
  /\ toString(1) \notin DOMAIN clients
  /\ ~usersMap[1].isOnline
  /\ usersMap[1].lastSeen = "now"

----------------------------------------------------------------------------
(* Presence broadcasts with the events of each transition counted *)

RECURSIVE CountEvent(_, _)
CountEvent(events, data) ==
  IF events = <<>> THEN 0
  ELSE (IF Head(events) = data THEN 1 ELSE 0) + CountEvent(Tail(events), data)

(* the events of this step added to the counts of t's transition *)
LogStatus(t) ==
  LET got(w) == CountEvent(sent'[w], UserStatusEvent(t))
      key(w) == <<t.ws, t.isOnline, sockets[w].userId>>
      keys == {key(w) : w \in {x \in Conns : got(x) > 0}}
      before(k) == IF k \in DOMAIN statusLog THEN statusLog[k] ELSE 0
      now(k) == IF \E w \in Conns : got(w) > 0 /\ key(w) = k
                THEN got(CHOOSE w \in Conns : got(w) > 0 /\ key(w) = k) ELSE 0
  IN [k \in DOMAIN statusLog \cup keys |-> before(k) + now(k)]

(* broadcastUserStatus, with the events it hands to ws.send recorded *)
broadcastLogged(t) ==
  /\ broadcastStep(t)
  /\ statusLog' = LogStatus(t)
  /\ UNCHANGED client

NextStatusLog ==
  \/ \E ws \in Conns : \E user \in AuthInputs(ws) : Connection(ws, user)
  \/ \E t \in tasks : ConnectionResume(t)
  \/ \E ws \in Conns : Close(ws)
  \/ \E t \in tasks : CloseResume(t)
  \/ \E t \in tasks : broadcastLogged(t)

SpecStatusLog == Init /\ [][NextStatusLog]_vars

(* C27: for one presence transition of a user, every other user receives   *)
(* at most one user_status_change event, also when the two share several   *)
(* conversations.                                                          *)
C27_OneStatusEventPerUser ==
  \A k \in DOMAIN statusLog : statusLog[k] <= 1

(* C28: a read receipt that updates no MessageStatus row (there is no row  *)
(* for the message and the reader) produces no status-update event: the    *)
(* author is notified only for a receipt that has a row to change.         *)
C28_NotifiedOnlyOnChange ==
  [][\A t \in tasks :
       (t.pc = "status_getMessage" /\ t \notin tasks' /\ StatusUpdateSockets(t) # {})
       => getMessageStatus(messageStatusMap, t.messageId, t.userId) # Null
    ]_vars

----------------------------------------------------------------------------
(* MongodbStorage.createMessage and deleteMessage *)

(* createMessage up to `await message.save()`: the message is stored *)
mongoCreateMessage(insertMessage) ==
  /\ HasFreeTask
  /\ counters.messageId <= SeedMessages + MaxOrderMsgs
  /\ messagesMap' = createMessageMap(messagesMap, counters, insertMessage)
  /\ counters' = [counters EXCEPT !.messageId = @ + 1]
  /\ tasks' = tasks \cup
       {[NewTask("mongo_save", Null, insertMessage.userId) EXCEPT
           !.conversationId = insertMessage.conversationId,
           !.messageId = counters.messageId]}
  /\ sent' = NothingSent
  /\ UNCHANGED <<usersMap, conversationsMap, participantsMap, messageStatusMap,
                 wsVars, directResults>>

(* `await ConversationModel.findByIdAndUpdate(conversationId, {lastMessageId})`, *)
(* then the message is returned                                            *)
mongoUpdateLastMessage(t) ==
  /\ t.pc = "mongo_save"
  /\ conversationsMap' = updateConversation(conversationsMap, t.conversationId, t.messageId)
  /\ tasks' = tasks \ {t}
  /\ sent' = NothingSent
  /\ UNCHANGED <<usersMap, participantsMap, messagesMap, messageStatusMap, counters,
                 wsVars, directResults>>

(* deleteMessage: `MessageModel.findByIdAndDelete(messageId)` and nothing else *)
mongoDeleteMessage(id) ==
  /\ id \in DOMAIN messagesMap
  /\ messagesMap' = MapDelete(messagesMap, id)
  /\ sent' = NothingSent
  /\ UNCHANGED <<usersMap, conversationsMap, participantsMap, messageStatusMap, counters,
                 tasks, wsVars, directResults>>

(* the messages DELETE /api/messages/:messageId is called for: the last    *)
(* seeded message of each conversation and the new ones                    *)
Deletable == (SeedMessages - 1)..(SeedMessages + MaxOrderMsgs)

NextLastMessage ==
  \/ \E userId \in {1, 2} : \E c \in 1..SeedConversations :
        mongoCreateMessage([conversationId |-> c, userId |-> userId,
                            content |-> "hi", mediaUrl |-> None])
  \/ \E t \in tasks : mongoUpdateLastMessage(t)
  \/ \E id \in Deletable : mongoDeleteMessage(id)

SpecLastMessage == Init /\ [][NextLastMessage]_vars

(* the most recently created message of a set *)
Latest(ms) == CHOOSE m \in ms : \A n \in ms : n <= m

(* C29: whenever no store operation is in progress, the lastMessageId of   *)
(* each conversation is null if the conversation has no messages and is    *)
(* otherwise the id of its most recently created existing message.         *)
C29_LastMessagePointer ==
  tasks = {}
  => \A c \in DOMAIN conversationsMap :
       LET ms == getMessagesByConversationId(messagesMap, c)
       IN IF ms = {} THEN conversationsMap[c].lastMessageId = Null
          ELSE conversationsMap[c].lastMessageId = Latest(ms)

----------------------------------------------------------------------------
(* The browser's WebSocketClient *)

maxReconnectAttempts == 5

MaxSockets == 7  \* sockets the client creates

serverVars == <<storeVars, clients, sockets, sent, newMessages, tasks, directResults,
                inbound, response, statusLog>>

(* connect(): nothing while a socket is held, else a new socket *)
connect(c) ==
  IF c.socket # 0 THEN c
  ELSE [c EXCEPT !.states = Append(@, "CONNECTING"), !.socket = Len(c.states) + 1]

(* attemptReconnect(): clears the timer, schedules connect() while         *)
(* attempts are left                                                       *)
attemptReconnect(c) ==
  IF c.reconnectAttempts < maxReconnectAttempts
  THEN [c EXCEPT !.reconnectAttempts = @ + 1, !.reconnectTimer = TRUE,
                 !.timerPending = TRUE]
  ELSE [c EXCEPT !.timerPending = FALSE]

(* socket.onclose *)
onClose(c) == attemptReconnect([c EXCEPT !.isConnected = FALSE, !.socket = 0])

(* the caller's connect() *)
clientConnect ==
  /\ client.socket = 0 => Len(client.states) < MaxSockets
  /\ client' = [connect(client) EXCEPT !.disconnected = FALSE]
  /\ UNCHANGED serverVars

(* the timeout of reconnectTimer fires and calls connect() *)
clientTimer ==
  /\ client.timerPending
  /\ client.socket = 0 => Len(client.states) < MaxSockets
  /\ client' = connect([client EXCEPT !.timerPending = FALSE])
  /\ UNCHANGED serverVars

(* the open event of socket s: socket.onopen *)
clientOpen(s) ==
  /\ client.states[s] = "CONNECTING"
  /\ client' = [client EXCEPT !.states[s] = "OPEN", !.isConnected = TRUE,
                              !.reconnectAttempts = 0]
  /\ UNCHANGED serverVars

(* the error event of socket s: socket.onerror *)
clientError(s) ==
  /\ client.states[s] \in {"CONNECTING", "OPEN"}
  /\ client' = [client EXCEPT !.isConnected = FALSE]
  /\ UNCHANGED serverVars

(* the close event of socket s, whoever closed it: socket.onclose *)
clientClose(s) ==
  /\ client.states[s] # "CLOSED"
  /\ client' = onClose([client EXCEPT !.states[s] = "CLOSED"])
  /\ UNCHANGED serverVars

(* the caller's disconnect() *)
clientDisconnect ==
  /\ client' =
       [(IF client.socket = 0 THEN client
         ELSE [client EXCEPT !.states[client.socket] = "CLOSING",
                             !.socket = 0,
                             !.isConnected = FALSE,
                             !.reconnectTimer = FALSE,
                             !.timerPending = IF client.reconnectTimer THEN FALSE ELSE @])
        EXCEPT !.disconnected = TRUE,
               !.socketsThen = Len(client.states)]
  /\ UNCHANGED serverVars

ClientSockets == DOMAIN client.states

NextClient ==
  \/ clientConnect
  \/ clientTimer
  \/ \E s \in ClientSockets : clientOpen(s)
  \/ \E s \in ClientSockets : clientError(s)
  \/ \E s \in ClientSockets : clientClose(s)
  \/ clientDisconnect

SpecClient == Init /\ [][NextClient]_vars

(* C30: after disconnect(), until the caller's next connect(), no          *)
(* reconnect is scheduled and no socket is created; the reconnect counter  *)
(* never exceeds maxReconnectAttempts and an open resets it.               *)
C30_NoReconnectAfterDisconnect ==
  /\ client.disconnected
     => ~client.timerPending /\ Len(client.states) = client.socketsThen
  /\ client.reconnectAttempts <= maxReconnectAttempts

====
